---- MODULE Spec2Model ----
(***************************************************************************)
(* Perceptual metrics of plenoptic (metric/perceptual_distance.py): the    *)
(* calls ssim, ssim_map, nlpd and nspd as a step machine.  One call is     *)
(* followed statement by statement: pc names the statement reached.        *)
(*                                                                         *)
(* Numbers.  A tensor is a batch of integer matrices over one common       *)
(* denominator `den`, so the local statistics (means, variances,           *)
(* covariance) are exact rationals.  A quotient of two tensors is kept in  *)
(* binary fixed point (FixOne units, truncated), a logarithm in LogOne     *)
(* units of log2.  Every channel of an image carries the same pixels, so   *)
(* one matrix per batch entry stands for all its channels.                 *)
(***************************************************************************)
EXTENDS Integers, Naturals, Sequences, FiniteSets, TLC

VARIABLES pc, fn, img1, img2, weighted, dynamic_range, opts, warnings,
          window, convs, mu1, mu2, sigma1_sq, sigma2_sq, sigma12, contrast_map,
          weight, map_ssim, im, y, st, pass, dist, result, grad, seen,
          objs, file, calls, at, op, tmp_dict, device, todo, before, outcome

\* the arguments of the call in progress
args == <<fn, img1, img2, weighted, dynamic_range, opts>>
\* the locals of _ssim_parts
stats == <<mu1, mu2, sigma1_sq, sigma2_sq, sigma12>>
maps == <<contrast_map, weight, map_ssim>>
\* the locals of nlpd and nspd
pyr == <<im, y, st, pass, dist>>

\* the state of the metrics
metric == <<pc, args, warnings, window, convs, stats, maps, pyr, result, grad, seen>>
\* the Synthesis objects, the file they save to, and the method in progress
synth == <<objs, file, calls, at, op, tmp_dict, device, todo, before, outcome>>

vars == <<metric, synth>>

(* ------------------------------ bounds -------------------------------- *)
MaxDim == 2
MaxBatch == 3
MaxChan == 2
MaxCalls == 2

(* ------------------------- program constants -------------------------- *)
WindowCap == 11
N_scales == 6

(* ----------------------------- arithmetic ----------------------------- *)
FixOne == 2^14
LogOne == 2^24
NaN == 0 - 2^30

Max(a, b) == IF a >= b THEN a ELSE b
Min(a, b) == IF a <= b THEN a ELSE b
Abs(a) == IF a >= 0 THEN a ELSE 0 - a

RECURSIVE Gcd(_, _)
Gcd(a, b) == IF b = 0 THEN a ELSE Gcd(b, a % b)
Lcm(a, b) == (a \div Gcd(a, b)) * b

\* the sum of s[lo..hi]
RECURSIVE SumRange(_, _, _)
SumRange(s, lo, hi) ==
    IF lo > hi THEN 0
    ELSE IF lo = hi THEN s[lo]
    ELSE SumRange(s, lo, (lo + hi) \div 2) + SumRange(s, ((lo + hi) \div 2) + 1, hi)
SumSeq(s) == SumRange(s, 1, Len(s))

RECURSIVE MaxSeqTo(_, _)
MaxSeqTo(s, k) == IF k = 1 THEN s[1] ELSE Max(s[k], MaxSeqTo(s, k - 1))

\* the fraction r/d (0 <= r < d) in binary, most significant bit first
RECURSIVE Frac(_, _, _)
Frac(r, d, bit) ==
    IF bit = 0 \/ r = 0 THEN 0
    ELSE IF r >= d - r THEN bit + Frac(r - (d - r), d, bit \div 2)
    ELSE Frac(r + r, d, bit \div 2)

\* n/d in units of 1/one, truncated toward zero; 0/0 and x/0 are NaN
Quot(n, d, one) ==
    IF d = 0 THEN NaN
    ELSE LET s == IF (n < 0) = (d < 0) THEN 1 ELSE 0 - 1
             a == Abs(n)
             b == Abs(d)
         IN s * ((a \div b) * one + Frac(a % b, b, one \div 2))

\* the product of two fixed-point numbers
FixMul(a, b) ==
    IF a = NaN \/ b = NaN THEN NaN
    ELSE IF a * b >= 0 THEN (a * b) \div FixOne
    ELSE 0 - ((0 - (a * b)) \div FixOne)

RECURSIVE ILog2(_)
ILog2(q) == IF q <= 1 THEN 0 ELSE 1 + ILog2(q \div 2)

\* log2(n/d) for n >= d > 0, in LogOne units: exponent plus linear mantissa
Lg2(n, d) ==
    LET e == ILog2(n \div d)
        p == d * 2^e
    IN e * LogOne + Quot(n - p, p, LogOne)

\* 2^(-x) for x >= 0 in LogOne units, the inverse of Lg2 on (0, 1]
Exp2Neg(x) ==
    LET i == x \div LogOne
        f == x % LogOne
    IN IF i > 30 THEN 0 ELSE (LogOne - f \div 2) \div 2^i

\* log2 of the sum of the numbers whose log2 are the entries of ls
LogSumExp(ls) ==
    LET m == MaxSeqTo(ls, Len(ls))
        t == SumSeq([k \in 1..Len(ls) |-> Exp2Neg(m - ls[k])])
    IN m + Lg2(t, LogOne)

(* ------------------------------ tensors ------------------------------- *)
Grid(h, w) == (1..h) \X (1..w)

NoTensor == [n |-> 0, c |-> 0, h |-> 0, w |-> 0, den |-> 1, v |-> <<>>]

\* pixel (i, j) of a pattern: lo on the even diagonal cells, hi on the odd
Pixel(p, i, j) == IF (i + j) % 2 = 0 THEN p.lo ELSE p.hi

ImgTensor(img) ==
    [n |-> Len(img.batch), c |-> img.c, h |-> img.h, w |-> img.w, den |-> 1,
     v |-> [b \in 1..Len(img.batch) |->
              [p \in Grid(img.h, img.w) |-> Pixel(img.batch[b], p[1], p[2])]]]

PixelSet(img) ==
    {Pixel(img.batch[b], p[1], p[2]) :
        b \in 1..Len(img.batch), p \in Grid(img.h, img.w)}

SetMin(S) == CHOOSE x \in S : \A z \in S : x <= z
SetMax(S) == CHOOSE x \in S : \A z \in S : x >= z

\* entry of t seen through broadcasting along batch, height and width
At(t, b, p) ==
    t.v[IF t.n = 1 THEN 1 ELSE b]
       [<<IF t.h = 1 THEN 1 ELSE p[1], IF t.w = 1 THEN 1 ELSE p[2]>>]

DimOk(a, b) == a = b \/ a = 1 \/ b = 1
Broadcastable(a, b) ==
    DimOk(a.n, b.n) /\ DimOk(a.c, b.c) /\ DimOk(a.h, b.h) /\ DimOk(a.w, b.w)

TBin(Op(_, _), a, b, d) ==
    [n |-> Max(a.n, b.n), c |-> Max(a.c, b.c), h |-> Max(a.h, b.h),
     w |-> Max(a.w, b.w), den |-> d,
     v |-> [bi \in 1..Max(a.n, b.n) |->
              [p \in Grid(Max(a.h, b.h), Max(a.w, b.w)) |->
                  Op(At(a, bi, p), At(b, bi, p))]]]

TMap(Op(_), a, d) ==
    [a EXCEPT !.den = d,
              !.v = [bi \in 1..a.n |-> [p \in Grid(a.h, a.w) |-> Op(a.v[bi][p])]]]

\* a * b, exact
TMul(a, b) == LET Op(x, z) == x * z IN TBin(Op, a, b, a.den * b.den)

\* a + b and a - b, exact, over the least common denominator
TAdd(a, b) ==
    LET L == Lcm(a.den, b.den)
        Op(x, z) == x * (L \div a.den) + z * (L \div b.den)
    IN TBin(Op, a, b, L)
TSub(a, b) ==
    LET L == Lcm(a.den, b.den)
        Op(x, z) == x * (L \div a.den) - z * (L \div b.den)
    IN TBin(Op, a, b, L)

\* k * a and a + num/sden, exact
TScale(k, a) == LET Op(x) == k * x IN TMap(Op, a, a.den)
TAddScalar(a, num, sden) ==
    LET L == Lcm(a.den, sden)
        Op(x) == x * (L \div a.den) + num * (L \div sden)
    IN TMap(Op, a, L)

\* a / b elementwise, in fixed point
TDiv(a, b) ==
    LET g == Gcd(a.den, b.den)
        Op(x, z) == Quot(x * (b.den \div g), z * (a.den \div g), FixOne)
    IN TBin(Op, a, b, FixOne)

\* the product of two fixed-point tensors
TFixMul(a, b) == TBin(FixMul, a, b, FixOne)


\* t.mean((-1, -2)) and t.sum((-1, -2)) of a fixed-point tensor
Cells(t, b) ==
    [k \in 1..(t.h * t.w) |-> t.v[b][<<((k - 1) \div t.w) + 1, ((k - 1) % t.w) + 1>>]]
TSum(t) ==
    [t EXCEPT !.h = 1, !.w = 1,
              !.v = [b \in 1..t.n |->
                       [p \in Grid(1, 1) |->
                          IF \E k \in 1..(t.h * t.w) : Cells(t, b)[k] = NaN
                          THEN NaN ELSE SumSeq(Cells(t, b))]]]
TMean(t) ==
    LET Op(x) == IF x = NaN THEN NaN ELSE Quot(x, t.h * t.w, 1)
    IN TMap(Op, TSum(t), t.den)

(* ------------------- _gaussian and create_window ---------------------- *)
\* exp(-d^2 / (2 * 1.5^2)) for d = 0, 1, 2, ... in quarters, rounded
GaussTable == <<4, 3, 2, 1, 0, 0>>

\* the 1d Gaussian of _gaussian: x runs over 0..window_size-1, mu = size // 2
gaussian(window_size) ==
    [x \in 1..window_size |->
        LET d == Abs((x - 1) - (window_size \div 2))
        IN IF d + 1 <= Len(GaussTable) THEN GaussTable[d + 1] ELSE 0]

\* the outcomes of float32 rounding for a sum that is 1 in exact arithmetic:
\* one unit in the last place below, exact, one above
Rounding == {0 - 1, 0, 1}

NoWindow == [size |-> 0, c |-> 0, ndim |-> 0, den |-> 1, num |-> <<>>, err |-> 0]

\* a window whose entries carry the rounding of the sum they were divided by
inexact_window(window_size, n_channels, err) ==
    [size |-> window_size, c |-> n_channels, ndim |-> 4,
     den |-> SumSeq(gaussian(window_size)) * SumSeq(gaussian(window_size)) + err,
     num |-> [p \in Grid(window_size, window_size) |->
                gaussian(window_size)[p[1]] * gaussian(window_size)[p[2]]],
     err |-> err]

\* create_window: outer product of the 1d Gaussian with itself, one copy per
\* channel, divided by its sum; err is the rounding of the float32 sum
create_window(window_size, n_channels, err) ==
    LET g == gaussian(window_size)
        num == [p \in Grid(window_size, window_size) |-> g[p[1]] * g[p[2]]]
        total == SumSeq(g) * SumSeq(g)
    IN [size |-> window_size, c |-> n_channels, ndim |-> 4, den |-> total,
        num |-> num, err |-> err]

\* window.sum((-1, -2)) compared with 1: -1 below, 0 equal, 1 above
WindowSum(win) ==
    LET s == SumSeq([k \in 1..(win.size * win.size) |->
                 win.num[<<((k - 1) \div win.size) + 1, ((k - 1) % win.size) + 1>>]])
    IN IF s > win.den THEN 1
       ELSE IF s < win.den THEN 0 - 1
       ELSE win.err

\* window / window.sum((-1, -2), keepdim=True)
Renormalize(win) ==
    [win EXCEPT !.den = SumSeq(gaussian(win.size)) * SumSeq(gaussian(win.size)),
                !.err = 0]

(* ------------------------------ F.conv2d ------------------------------ *)
\* F.conv2d(t, window, padding=0, groups=n_channels) is defined when the
\* channels of t are those of the window and the kernel fits in the image
ConvOk(t, win) == t.c = win.c /\ win.size <= t.h /\ win.size <= t.w

Conv2d(t, win) ==
    LET k == win.size
        oh == t.h - k + 1
        ow == t.w - k + 1
    IN [n |-> t.n, c |-> t.c, h |-> oh, w |-> ow, den |-> t.den * win.den,
        v |-> [b \in 1..t.n |->
                 [p \in Grid(oh, ow) |->
                    SumSeq([q \in 1..(k * k) |->
                       LET a == ((q - 1) \div k) + 1
                           c == ((q - 1) % k) + 1
                       IN win.num[<<a, c>>] * t.v[b][<<p[1] + a - 1, p[2] + c - 1>>]])]]]

(* --------------------------- _ssim_parts ------------------------------ *)
\* img_ranges: the min and max of both images
img_ranges(a, b) ==
    {SetMin(PixelSet(a)), SetMax(PixelSet(a)), SetMin(PixelSet(b)), SetMax(PixelSet(b))}

\* a range check that looks at the upper end of the range alone
RangeAbove(a, b, dr) ==
    \E x \in img_ranges(a, b) : x > (IF dr = 255 THEN 255 ELSE 1)

\* the condition under which the dynamic_range warning is raised
RangeOutside(a, b, dr) ==
    LET r == img_ranges(a, b)
    IN IF dr = 1 THEN (\E x \in r : x > 1) \/ (\E x \in r : x < 0)
       ELSE IF dr = 2 THEN (\E x \in r : x > 1) \/ (\E x \in r : x < 0 - 1)
       ELSE IF dr = 255 THEN (\E x \in r : x > 255) \/ (\E x \in r : x < 0)
       ELSE FALSE

\* a shape check that compares the heights alone
HeightMismatch(a, b) == b.h # a.h

\* img2.shape[-2:] != (height, width)
SpatialMismatch(a, b) == <<b.h, b.w>> # <<a.h, a.w>>

\* n_batches != img2.shape[0] and neither is 1
BatchMismatch(a, b) ==
    Len(a.batch) # Len(b.batch) /\ Len(a.batch) # 1 /\ Len(b.batch) # 1

\* real_size = min(11, height, width)
real_size(a) == Min(WindowCap, Min(a.h, a.w))

\* C1 = (0.01 * dynamic_range) ** 2 and C2 = (0.03 * dynamic_range) ** 2 as
\* reduced fractions num/den
C1num(dr) == (dr * dr) \div Gcd(dr * dr, 10000)
C1den(dr) == 10000 \div Gcd(dr * dr, 10000)
C2num(dr) == (9 * dr * dr) \div Gcd(9 * dr * dr, 10000)
C2den(dr) == 10000 \div Gcd(9 * dr * dr, 10000)

\* 1 + (sigma_sq / C2), exact
OnePlusOverC2(sigma_sq, dr) ==
    LET Op(x) == x * C2den(dr)
    IN TAddScalar(TMap(Op, sigma_sq, sigma_sq.den * C2num(dr)), 1, 1)

\* torch.matmul(a, b) of two 4d tensors is defined when the inner matrix
\* dimensions agree and the batch dimensions broadcast
MatMulOk(a, b) == a.w = b.h /\ DimOk(a.n, b.n) /\ DimOk(a.c, b.c)

\* torch.log(torch.matmul(a, b)): entry (i, j) is the log of the sum over k
\* of a[i, k] * b[k, j]
LogMatMul(a, b) ==
    [n |-> Max(a.n, b.n), c |-> Max(a.c, b.c), h |-> a.h, w |-> b.w, den |-> LogOne,
     v |-> [bi \in 1..Max(a.n, b.n) |->
              [p \in Grid(a.h, b.w) |->
                 LogSumExp([k \in 1..a.w |->
                    Lg2(a.v[IF a.n = 1 THEN 1 ELSE bi][<<p[1], k>>], a.den)
                    + Lg2(b.v[IF b.n = 1 THEN 1 ELSE bi][<<k, p[2]>>], b.den)])]]]

\* a logarithm w times a fixed-point number x, in LogOne units
LogTimesFix(w, x) ==
    IF w = NaN \/ x = NaN THEN NaN
    ELSE LET s == IF (w < 0) = (x < 0) THEN 1 ELSE 0 - 1
             a == Abs(w)
             m == Abs(x)
         IN s * ((a \div FixOne) * m + ((a % FixOne) * m) \div FixOne)

FixQuot(a, b) == IF a = NaN \/ b = NaN THEN NaN ELSE Quot(a, b, FixOne)

\* (map_ssim * weight).sum((-1, -2)) / weight.sum((-1, -2)); 0/0 is NaN
WeightedMean(m, wt) ==
    TBin(FixQuot, TSum(TBin(LogTimesFix, wt, m, LogOne)), TSum(wt), FixOne)

(* ------------------------------ inputs -------------------------------- *)
\* one side above the window cap, so that min(11, height, width) is 11
BigDim == WindowCap + 1
Dims == (1..MaxDim) \cup {BigDim}
DynamicRanges == {1, 2, 255}

Zeros == [lo |-> 0, hi |-> 0]
Ones == [lo |-> 1, hi |-> 1]
Checker == [lo |-> 0, hi |-> 1]
Inverse == [lo |-> 1, hi |-> 0]
Negative == [lo |-> 0 - 1, hi |-> 1]
Bright == [lo |-> 0, hi |-> 2]
Patterns == {Zeros, Ones, Checker, Inverse, Negative, Bright}

\* im.repeat(n, 1, 1, 1): n copies of one image along the batch axis
Repeat(p, n) == [b \in 1..n |-> p]
Image(p, n, c, h, w) == [c |-> c, h |-> h, w |-> w, batch |-> Repeat(p, n)]
NoImage == [c |-> 0, h |-> 0, w |-> 0, batch |-> <<>>]

\* the (function, weighted) pairs of the two SSIM entry points
SsimModes == {<<"ssim", FALSE>>, <<"ssim", TRUE>>, <<"ssim_map", FALSE>>}

\* every shape combination, on one pair of images
ShapeCases ==
    {[fn |-> m[1], weighted |-> m[2], dynamic_range |-> 1,
      img1 |-> Image(Checker, n[1], c[1], s[1], s[2]),
      img2 |-> Image(Inverse, n[2], c[2], t[1], t[2])] :
        m \in {<<"ssim", FALSE>>, <<"ssim_map", FALSE>>},
        n \in (1..MaxBatch) \X (1..MaxBatch),
        c \in (1..MaxChan) \X (1..MaxChan),
        s \in Dims \X Dims,
        t \in Dims \X Dims}

\* every pair of pixel patterns and every dynamic range, on images of one shape
ValueCases ==
    {[fn |-> m[1], weighted |-> m[2], dynamic_range |-> dr,
      img1 |-> Image(p[1], 1, 1, s[1], s[2]),
      img2 |-> Image(p[2], 1, 1, s[1], s[2])] :
        m \in SsimModes, dr \in DynamicRanges, p \in Patterns \X Patterns,
        s \in (1..MaxDim) \X (1..MaxDim)}

\* the weighted mean on a map of more than one cell
WeightedCases ==
    {[fn |-> "ssim", weighted |-> TRUE, dynamic_range |-> 1,
      img1 |-> Image(p[1], n[1], 1, BigDim, BigDim),
      img2 |-> Image(p[2], n[2], 1, BigDim, BigDim)] :
        p \in {Zeros, Ones, Checker, Inverse} \X {Zeros, Ones, Checker, Inverse},
        n \in {<<1, 1>>, <<1, 2>>}}

SsimCases == ShapeCases \cup ValueCases \cup WeightedCases

\* the batches nlpd and nspd are called with: copies of one image, or two
\* images in turn
Mixed(n) == [b \in 1..n |-> IF b % 2 = 1 THEN Checker ELSE Inverse]
Batches == {Repeat(p, n) : p \in {Checker, Inverse}, n \in 1..MaxBatch}
           \cup {Mixed(n) : n \in 1..MaxBatch}

NoOpts == [O |-> 0, S |-> 0, complex |-> FALSE]
DefaultOpts == [O |-> 1, S |-> 5, complex |-> TRUE]

DistCases ==
    {[fn |-> m[1], opts |-> m[2],
      img1 |-> [c |-> c, h |-> BigDim, w |-> BigDim, batch |-> b[1]],
      img2 |-> [c |-> c, h |-> BigDim, w |-> w2, batch |-> b[2]]] :
        m \in {<<"nlpd", NoOpts>>, <<"nspd", DefaultOpts>>,
               <<"nspd", [DefaultOpts EXCEPT !.complex = FALSE]>>},
        c \in 1..MaxChan, w2 \in {BigDim, 1}, b \in Batches \X Batches}

(* ------------------------------ Synthesis ----------------------------- *)
\* attribute values: tensors (values in hundredths), lists of tensors,
\* numbers, loss functions and models
Devices == {"cpu", "cuda"}
Absent == [type |-> "absent"]
Tensor(vals, dev, param) ==
    [type |-> "tensor", vals |-> vals, device |-> dev, dtype |-> "float32",
     param |-> param]
TensorList(items) == [type |-> "list", items |-> items]
Number(n) == [type |-> "number", val |-> n]
Function(name) == [type |-> "function", name |-> name]
Module(dev) == [type |-> "module", device |-> dev, dtype |-> "float32"]

\* vars(self), in the order the attributes were set
AttrOrder == <<"model", "base_signal", "saved_signal", "loss_function",
               "seed", "_signal_shape">>
AttrNames == {AttrOrder[n] : n \in 1..Len(AttrOrder)} \cup {"synthesized_signal"}

Object(model, sig, dev, saved, loss, seed) ==
    [a \in AttrNames |->
       CASE a = "model" -> model
         [] a = "base_signal" -> Tensor(sig, dev, TRUE)
         [] a = "saved_signal" -> saved
         [] a = "loss_function" -> Function(loss)
         [] a = "seed" -> Number(seed)
         [] a = "_signal_shape" -> Number(Len(sig))
         [] OTHER -> Absent]

\* the objects that save
Savers ==
    {Object(Module(dev), sig, dev, TensorList(<<Tensor(sig, dev, FALSE)>>), "l2", 0) :
        sig \in {<<100>>, <<104>>, <<100, 100>>}, dev \in Devices}
\* the initialized objects that load
Loaders ==
    {Object(Module("cpu"), <<100>>, "cpu", TensorList(<<Tensor(<<100>>, "cpu", FALSE)>>),
            loss, seed) : loss \in {"l1", "l2"}, seed \in {0, 1}}
    \cup {Object(Function("model"), <<100>>, "cuda", Absent, "l2", 0)}

hasattr(o, k) == o[k] # Absent

\* an ordered dictionary, as a sequence of <<key, value>>
Keys(d) == {d[n][1] : n \in 1..Len(d)}
Get(d, k) == d[CHOOSE n \in 1..Len(d) : d[n][1] = k /\ \A m \in (n + 1)..Len(d) : d[m][1] # k][2]
\* the file at file_path: the dictionary in it and the object that wrote it
NoFile == [exists |-> FALSE, dict |-> <<>>, obj |-> <<>>]

\* tensor.detach(): the same values, a plain tensor
detach(v) == IF v.type = "tensor" THEN [v EXCEPT !.param = FALSE] ELSE v

\* the names save is given: a list, or None
\* the names of vars(self), 'model' included
AllAttrs(o) == SelectSeq(AttrOrder, LAMBDA k : hasattr(o, k))
\* lines 42-43: the names of vars(self) without 'model'
DefaultAttrs(o) == SelectSeq(AttrOrder, LAMBDA k : hasattr(o, k) /\ k # "model")

\* lines 45-56: save_dict, one entry per name, a later entry for a name
\* replacing an earlier one
RECURSIVE save_dict(_, _)
save_dict(o, attrs) ==
    IF attrs = <<>> THEN <<>>
    ELSE LET k == attrs[Len(attrs)]
             rest == save_dict(o, SubSeq(attrs, 1, Len(attrs) - 1))
         IN IF k \in Keys(rest) THEN rest ELSE Append(rest, <<k, detach(o[k])>>)

\* the explicit lists save is called with
SaveLists ==
    {<<"base_signal", "seed">>, <<"seed", "loss_function">>,
     <<"model", "base_signal">>, <<"seed", "synthesized_signal">>,
     <<"saved_signal", "base_signal", "loss_function">>}

NoOp == [method |-> "none", self |-> 0]
NoOutcome == [kind |-> "none", why |-> "", warned |-> {}, value |-> 0]
Returned(value, warned) == [kind |-> "return", why |-> "", warned |-> warned, value |-> value]
Failed(why, warned) == [kind |-> "raise", why |-> why, warned |-> warned, value |-> 0]

\* the position of the first name of attrs that o does not have, or 0
FirstMissing(o, attrs) ==
    IF \A n \in 1..Len(attrs) : hasattr(o, attrs[n]) THEN 0
    ELSE CHOOSE n \in 1..Len(attrs) :
            ~hasattr(o, attrs[n]) /\ \A m \in 1..(n - 1) : hasattr(o, attrs[m])

\* lines 47-50: the warning about saving the model, emitted when the loop
\* comes to that name
ModelWarning(o, attrs) ==
    LET upto == IF FirstMissing(o, attrs) = 0 THEN Len(attrs) ELSE FirstMissing(o, attrs)
    IN IF \E n \in 1..upto : attrs[n] = "model" THEN {"model"} ELSE {}

(* --- to --- *)
\* the names that start with "saved_"
startswith_saved(k) == k \in {"saved_signal"}

NoTarget == "none"
ToTargets == {[device |-> "cuda", dtype |-> NoTarget], [device |-> "cpu", dtype |-> NoTarget],
              [device |-> "cuda", dtype |-> "float64"]}
ToLists == {<<"base_signal", "saved_signal", "seed", "synthesized_signal">>,
            <<"saved_signal">>}

\* a.to(move_device, dtype): None leaves the device or the dtype as it is
tensor_to(a, dev, dtype) ==
    [a EXCEPT !.device = IF dev = NoTarget THEN @ ELSE dev,
              !.dtype = IF dtype = NoTarget THEN @ ELSE dtype]

\* lines 192-198: move(a, k)
move(a, k, target) ==
    tensor_to(a, IF startswith_saved(k) THEN NoTarget ELSE target.device, target.dtype)

\* lines 201-209: what one pass of the loop makes of attribute k; a Parameter
\* is wrapped again
moved_attr(v, k, target) ==
    IF v.type = "tensor" THEN move(v, k, target)
    ELSE IF v.type = "list"
    THEN TensorList([n \in 1..Len(v.items) |-> move(v.items[n], k, target)])
    ELSE v

\* lines 185-210: the object after self.to(target, attrs=attrs)
object_to(o, target, attrs) ==
    [a \in AttrNames |->
       IF a = "model"
       THEN IF o[a].type = "module" THEN tensor_to(o[a], target.device, target.dtype)
            ELSE o[a]
       ELSE IF \E n \in 1..Len(attrs) : attrs[n] = a
       THEN moved_attr(o[a], a, target)
       ELSE o[a]]

(* --- load --- *)
\* torch.load(file_path, map_location): every tensor stored on map_location
map_value(v, loc) ==
    IF loc = NoTarget THEN v
    ELSE IF v.type \in {"tensor", "module"} THEN [v EXCEPT !.device = loc]
    ELSE IF v.type = "list"
    THEN TensorList([n \in 1..Len(v.items) |-> [v.items[n] EXCEPT !.device = loc]])
    ELSE v
\* a load that finds an empty dictionary
load_nothing(d, loc) == <<>>
torch_load(d, loc) == [n \in 1..Len(d) |-> <<d[n][1], map_value(d[n][2], loc)>>]

\* lines 104-110: map_location, or the device of the first tensor among the
\* values; the name stays unbound when there is none
probe_device(d, loc) ==
    IF loc # NoTarget THEN loc
    ELSE IF \E n \in 1..Len(d) : d[n][2].type = "tensor"
    THEN d[CHOOSE n \in 1..Len(d) :
              d[n][2].type = "tensor" /\ \A m \in 1..(n - 1) : d[m][2].type # "tensor"][2].device
    ELSE "unbound"

\* torch.allclose(a, b, rtol=5e-2) on values in hundredths: the shapes
\* broadcast, and |a - b| <= atol + rtol * |b| in every entry
RtolInverse == 20
Broadcasts(a, b) == Len(a.vals) = Len(b.vals) \/ Len(a.vals) = 1 \/ Len(b.vals) = 1
allclose(a, b) ==
    \A n \in 1..Max(Len(a.vals), Len(b.vals)) :
       LET x == a.vals[IF Len(a.vals) = 1 THEN 1 ELSE n]
           z == b.vals[IF Len(b.vals) = 1 THEN 1 ELSE n]
       IN RtolInverse * Abs(x - z) <= Abs(z)

\* lines 112-136: the failure that checking attribute k ends in, or ""
check_attribute(o, d, k) ==
    IF ~hasattr(o, k) THEN "Exception"
    ELSE IF k \notin Keys(d) THEN "KeyError"
    ELSE IF o[k].type = "tensor"
    THEN IF Get(d, k).type # "tensor" THEN "AttributeError"
         ELSE IF ~Broadcasts(o[k], Get(d, k)) \/ o[k].dtype # Get(d, k).dtype
         THEN "Exception"
         ELSE IF ~allclose(o[k], Get(d, k)) THEN "Exception"
         ELSE ""
    ELSE IF o[k] # Get(d, k) THEN "Exception" ELSE ""

\* the failure of the first attribute of ks whose check fails, or ""
RECURSIVE check_attributes(_, _, _)
check_attributes(o, d, ks) ==
    IF ks = <<>> THEN ""
    ELSE IF check_attribute(o, d, Head(ks)) # "" THEN check_attribute(o, d, Head(ks))
    ELSE check_attributes(o, d, Tail(ks))

CheckLists == {<<>>, <<"base_signal">>, <<"seed", "base_signal">>,
               <<"synthesized_signal">>}
LossLists == {<<>>, <<"loss_function">>}
MapLocations == {NoTarget, "cpu"}

\* object number n of objs with attributes o
WithObject(os, n, o) == [os EXCEPT ![n] = o]
\* an assignment that leaves the object as it is
unset(o, k, v) == o
\* setattr(self, k, v)
setattr(o, k, v) == [o EXCEPT ![k] = v]

(* ------------------------------ state --------------------------------- *)
NoResult == [kind |-> "none", why |-> "", rank |-> 0, t |-> NoTensor]
Raised(why) == [kind |-> "raise", why |-> why, rank |-> 0, t |-> NoTensor]
Value(rank, t) == [kind |-> "value", why |-> "", rank |-> rank, t |-> t]

IsSsim == fn \in {"ssim", "ssim_map"}
IsDist == fn \in {"nlpd", "nspd"}

\* the tensors a call can be given with gradient tracking enabled
GradFlags(case) ==
    IF case \in ShapeCases THEN {{"img2"}} ELSE SUBSET {"img1", "img2"}

\* an operation that detaches what it computes from the graph
Detach(g, name, deps) == g

\* autograd: a tensor computed from a tensor that requires gradient requires
\* gradient itself; g is the set of the tensors that do
Track(g, name, deps) == IF deps \cap g # {} THEN g \cup {name} ELSE g

\* the calls that are made again: once one of them has returned, the calls
\* that follow are drawn from them
ReplayedSsim ==
    {[fn |-> "ssim", weighted |-> wt, dynamic_range |-> 1,
      img1 |-> Image(Checker, 1, 1, 2, 2),
      img2 |-> Image(Inverse, 1, 1, 2, 2)] : wt \in BOOLEAN}
    \cup {[fn |-> "ssim_map", weighted |-> FALSE, dynamic_range |-> 1,
           img1 |-> Image(Checker, 2, 1, 1, 1),
           img2 |-> Image(Inverse, 3, 1, 1, 1)]}
ReplayedDist ==
    {[fn |-> "nlpd", opts |-> NoOpts,
      img1 |-> [c |-> 1, h |-> BigDim, w |-> BigDim, batch |-> Mixed(2)],
      img2 |-> [c |-> 1, h |-> BigDim, w |-> BigDim, batch |-> Mixed(2)]]}

\* the first replayed call that has returned, with its outcome
NoCall == [call |-> <<>>, result |-> NoResult]
IsReplayed ==
    \/ \E case \in ReplayedSsim :
          <<fn, img1, img2, weighted, dynamic_range>>
             = <<case.fn, case.img1, case.img2, case.weighted, case.dynamic_range>>
    \/ \E case \in ReplayedDist :
          <<fn, img1, img2, opts>> = <<case.fn, case.img1, case.img2, case.opts>>

Init ==
    /\ pc = "idle"
    /\ fn = "none"
    /\ img1 = NoImage
    /\ img2 = NoImage
    /\ weighted = FALSE
    /\ dynamic_range = 1
    /\ opts = NoOpts
    /\ warnings = {}
    /\ window = NoWindow
    /\ convs = 0
    /\ mu1 = NoTensor
    /\ mu2 = NoTensor
    /\ sigma1_sq = NoTensor
    /\ sigma2_sq = NoTensor
    /\ sigma12 = NoTensor
    /\ contrast_map = NoTensor
    /\ weight = NoTensor
    /\ map_ssim = NoTensor
    /\ im = <<>>
    /\ y = <<>>
    /\ st = <<>>
    /\ pass = 0
    /\ dist = <<>>
    /\ result = NoResult
    /\ grad = {}
    /\ seen = NoCall
    /\ objs = <<>>
    /\ file = NoFile
    /\ calls = 0
    /\ at = "none"
    /\ op = NoOp
    /\ tmp_dict = <<>>
    /\ device = "unbound"
    /\ todo = <<>>
    /\ before = <<>>
    /\ outcome = NoOutcome

\* the locals of _ssim_parts that are products of the means
mu1_sq == TMul(mu1, mu1)
mu2_sq == TMul(mu2, mu2)
mu1_mu2 == TMul(mu1, mu2)

(* --------------------------- ssim, ssim_map --------------------------- *)
\* ssim(img1, img2, weighted, dynamic_range) or ssim_map(img1, img2,
\* dynamic_range) is called: control enters _ssim_parts
CallSsim ==
    /\ pc = "idle"
    /\ \E case \in (IF seen = NoCall THEN SsimCases ELSE ReplayedSsim) :
          /\ fn' = case.fn
          /\ img1' = case.img1
          /\ img2' = case.img2
          /\ weighted' = case.weighted
          /\ dynamic_range' = case.dynamic_range
          /\ grad' \in GradFlags(case)
    /\ pc' = "range"
    /\ UNCHANGED <<opts, warnings, window, convs, stats, maps, pyr, result>>
    /\ UNCHANGED seen
    /\ UNCHANGED synth

\* lines 91-106: the dynamic_range advisory
RangeCheck ==
    /\ pc = "range"
    /\ warnings' = IF RangeOutside(img1, img2, dynamic_range)
                   THEN warnings \cup {"range"} ELSE warnings
    /\ pc' = "channels"
    /\ UNCHANGED <<args, window, convs, stats, maps, pyr, result>>
    /\ UNCHANGED <<grad, seen>>
    /\ UNCHANGED synth

\* lines 107-111: the grayscale advisory
ChannelCheck ==
    /\ pc = "channels"
    /\ warnings' = IF img1.c > 1 THEN warnings \cup {"channels"} ELSE warnings
    /\ pc' = "shape"
    /\ UNCHANGED <<args, window, convs, stats, maps, pyr, result>>
    /\ UNCHANGED <<grad, seen>>
    /\ UNCHANGED synth

\* lines 112-113: height and width must agree
ShapeCheck ==
    /\ pc = "shape"
    /\ IF SpatialMismatch(img1, img2)
       THEN pc' = "done" /\ result' = Raised("shape")
       ELSE pc' = "batch" /\ UNCHANGED result
    /\ UNCHANGED <<args, warnings, window, convs, stats, maps, pyr>>
    /\ UNCHANGED <<grad, seen>>
    /\ UNCHANGED synth

\* lines 114-119: batch sizes must agree or one of them be 1
BatchCheck ==
    /\ pc = "batch"
    /\ IF BatchMismatch(img1, img2)
       THEN pc' = "done" /\ result' = Raised("batch")
       ELSE pc' = "window" /\ UNCHANGED result
    /\ UNCHANGED <<args, warnings, window, convs, stats, maps, pyr>>
    /\ UNCHANGED <<grad, seen>>
    /\ UNCHANGED synth

\* lines 121-122: the window, of side min(11, height, width)
CreateWindow ==
    /\ pc = "window"
    /\ \E err \in Rounding :
          window' = create_window(real_size(img1), img1.c, err)
    /\ pc' = "winsum"
    /\ UNCHANGED <<args, warnings, convs, stats, maps, pyr, result>>
    /\ UNCHANGED <<grad, seen>>
    /\ UNCHANGED synth

\* lines 125-127: a window whose sum exceeds 1 is reported and renormalized
WindowSumCheck ==
    /\ pc = "winsum"
    /\ IF WindowSum(window) > 0
       THEN /\ warnings' = warnings \cup {"window"}
            /\ window' = Renormalize(window)
       ELSE UNCHANGED <<warnings, window>>
    /\ pc' = "windim"
    /\ UNCHANGED <<args, convs, stats, maps, pyr, result>>
    /\ UNCHANGED <<grad, seen>>
    /\ UNCHANGED synth

\* lines 128-129: the window must have 4 dimensions
WindowDimCheck ==
    /\ pc = "windim"
    /\ IF window.ndim # 4
       THEN pc' = "done" /\ result' = Raised("window")
       ELSE pc' = "means" /\ UNCHANGED result
    /\ UNCHANGED <<args, warnings, window, convs, stats, maps, pyr>>
    /\ UNCHANGED <<grad, seen>>
    /\ UNCHANGED synth

\* lines 131-136: the local means and their products
Means ==
    /\ pc = "means"
    /\ IF ~ConvOk(ImgTensor(img1), window)
       THEN /\ pc' = "done" /\ result' = Raised("conv2d")
            /\ UNCHANGED <<convs, mu1, mu2>>
       ELSE IF ~ConvOk(ImgTensor(img2), window)
       THEN /\ pc' = "done" /\ result' = Raised("conv2d")
            /\ convs' = convs + 1
            /\ mu1' = Conv2d(ImgTensor(img1), window)
            /\ UNCHANGED mu2
       ELSE /\ convs' = convs + 2
            /\ mu1' = Conv2d(ImgTensor(img1), window)
            /\ mu2' = Conv2d(ImgTensor(img2), window)
            /\ IF Broadcastable(mu1', mu2')
               THEN pc' = "variances" /\ UNCHANGED result
               ELSE pc' = "done" /\ result' = Raised("broadcast")
    /\ UNCHANGED <<args, warnings, window, sigma1_sq, sigma2_sq, sigma12, maps, pyr>>
    /\ grad' = IF result'.kind = "raise" THEN grad ELSE Track(Track(grad, "mu1", {"img1"}), "mu2", {"img2"})
    /\ UNCHANGED seen
    /\ UNCHANGED synth

\* lines 138-140: the local variances and the covariance
Variances ==
    /\ pc = "variances"
    /\ convs' = convs + 3
    /\ sigma1_sq' = TSub(Conv2d(TMul(ImgTensor(img1), ImgTensor(img1)), window), mu1_sq)
    /\ sigma2_sq' = TSub(Conv2d(TMul(ImgTensor(img2), ImgTensor(img2)), window), mu2_sq)
    /\ sigma12' = TSub(Conv2d(TMul(ImgTensor(img1), ImgTensor(img2)), window), mu1_mu2)
    /\ pc' = "contrast"
    /\ UNCHANGED <<args, warnings, window, mu1, mu2, maps, pyr, result>>
    /\ grad' = IF result'.kind = "raise" THEN grad ELSE Track(Track(Track(grad, "sigma1_sq", {"img1", "mu1"}),
                                "sigma2_sq", {"img2", "mu2"}),
                          "sigma12", {"img1", "img2", "mu1", "mu2"})
    /\ UNCHANGED seen
    /\ UNCHANGED synth

\* lines 142-152: C1, C2, v1, v2 and the contrast map v1 / v2
Contrast ==
    /\ pc = "contrast"
    /\ contrast_map' =
          TDiv(TAddScalar(TScale(2, sigma12), C2num(dynamic_range), C2den(dynamic_range)),
               TAddScalar(TAdd(sigma1_sq, sigma2_sq),
                          C2num(dynamic_range), C2den(dynamic_range)))
    /\ pc' = "weight"
    /\ UNCHANGED <<args, warnings, window, convs, stats, weight, map_ssim, pyr, result>>
    /\ grad' = IF result'.kind = "raise" THEN grad ELSE Track(grad, "contrast_map", {"sigma12", "sigma1_sq", "sigma2_sq"})
    /\ UNCHANGED seen
    /\ UNCHANGED synth

\* line 155: weight = log(matmul(1 + sigma1_sq / C2, 1 + sigma2_sq / C2))
Weight ==
    /\ pc = "weight"
    /\ LET a == OnePlusOverC2(sigma1_sq, dynamic_range)
           b == OnePlusOverC2(sigma2_sq, dynamic_range)
       IN IF MatMulOk(a, b)
          THEN weight' = LogMatMul(a, b) /\ pc' = "ssim_map" /\ UNCHANGED result
          ELSE pc' = "done" /\ result' = Raised("matmul") /\ UNCHANGED weight
    /\ UNCHANGED <<args, warnings, window, convs, stats, contrast_map, map_ssim, pyr>>
    /\ grad' = IF result'.kind = "raise" THEN grad ELSE Track(grad, "weight", {"sigma1_sq", "sigma2_sq"})
    /\ UNCHANGED seen
    /\ UNCHANGED synth

\* lines 158-159 and 302: the SSIM map; ssim_map returns it
SsimMap ==
    /\ pc = "ssim_map"
    /\ map_ssim' =
          TFixMul(TDiv(TAddScalar(TScale(2, mu1_mu2),
                                  C1num(dynamic_range), C1den(dynamic_range)),
                       TAddScalar(TAdd(mu1_sq, mu2_sq),
                                  C1num(dynamic_range), C1den(dynamic_range))),
                  contrast_map)
    /\ IF fn = "ssim_map"
       THEN pc' = "done" /\ result' = Value(4, map_ssim')
       ELSE pc' = "reduce" /\ UNCHANGED result
    /\ UNCHANGED <<args, warnings, window, convs, stats, contrast_map, weight, pyr>>
    /\ grad' = IF fn = "ssim_map"
               THEN Track(Track(grad, "map_ssim", {"mu1", "mu2", "contrast_map"}),
                          "result", {"mu1", "mu2", "contrast_map"})
               ELSE Track(grad, "map_ssim", {"mu1", "mu2", "contrast_map"})
    /\ UNCHANGED seen
    /\ UNCHANGED synth

\* lines 235-241: ssim reduces the map to one number per image and channel
Reduce ==
    /\ pc = "reduce"
    /\ IF ~weighted
       THEN result' = Value(2, TMean(map_ssim))
       ELSE IF Broadcastable(map_ssim, weight)
       THEN result' = Value(2, WeightedMean(map_ssim, weight))
       ELSE result' = Raised("broadcast")
    /\ pc' = "done"
    /\ UNCHANGED <<args, warnings, window, convs, stats, maps, pyr>>
    /\ grad' = IF result'.kind = "raise" THEN grad ELSE Track(grad, "result", IF weighted THEN {"map_ssim", "weight"}
                                             ELSE {"map_ssim"})
    /\ UNCHANGED seen
    /\ UNCHANGED synth

(* ----------------------------- nlpd, nspd ----------------------------- *)
\* batch entry b of image src, as it travels through the pyramid
Entries(img, src) ==
    [b \in 1..Len(img.batch) |-> [src |-> src, idx |-> b, pat |-> img.batch[b]]]

\* torch.cat((IM_1, IM_2), 0) is defined when all but the batch size agree
CatOk(a, b) == a.c = b.c /\ a.h = b.h /\ a.w = b.w
Cat(a, b) == Entries(a, 1) \o Entries(b, 2)

\* the band keys of a steerable pyramid of height S and order O: scale s
\* in 0..S-1, orientation b in 0..O
BandKeys(O, S) ==
    [j \in 1..(S * (O + 1)) |-> <<(j - 1) \div (O + 1), (j - 1) % (O + 1)>>]

\* a pyramid acts on every batch entry alone and keeps the batch order
Decompose(batch, nbands) == [s \in 1..nbands |-> batch]

\* sqrt(mean((a - b) ** 2) + epsilon): which two entries are compared, and
\* whether the mean squared difference is exactly 0
Term(a, b) == [left |-> <<a.src, a.idx>>, right |-> <<b.src, b.idx>>,
               zero |-> a.pat = b.pat]

\* y[pass][0] and y[pass][1]: the first two entries along the batch axis
First(band) == band[1]
Second(band) == band[2]

\* a term of nspd, with the mapping and the band key it was computed from
BandTerm(map, key, a, b) ==
    [map |-> map, key |-> key, left |-> Term(a, b).left,
     right |-> Term(a, b).right, zero |-> Term(a, b).zero]

\* a loop body that takes both of its terms from norm
NormTwice(norm, state, key) ==
    <<BandTerm("norm", key, First(norm[key]), Second(norm[key])),
      BandTerm("norm", key, First(norm[key]), Second(norm[key]))>>

\* the two terms the loop of nspd appends for one key of state
NspdTerms(norm, state, key) ==
    <<BandTerm("norm", key, First(norm[key]), Second(norm[key])),
      BandTerm("state", key, First(state[key]), Second(state[key]))>>

\* nlpd(IM_1, IM_2) or nspd(IM_1, IM_2, O, S, complex) is called
CallDist ==
    /\ pc = "idle"
    /\ \E case \in (IF seen = NoCall THEN DistCases ELSE ReplayedDist) :
          /\ fn' = case.fn
          /\ img1' = case.img1
          /\ img2' = case.img2
          /\ opts' = case.opts
          /\ grad' \in GradFlags(case)
    /\ pc' = "cat"
    /\ UNCHANGED <<weighted, dynamic_range, warnings, window, convs, stats,
                   maps, pyr, result>>
    /\ UNCHANGED seen
    /\ UNCHANGED synth

\* lines 372 and 399: the two inputs are concatenated along the batch axis
Concat ==
    /\ pc = "cat"
    /\ IF CatOk(img1, img2)
       THEN /\ im' = Cat(img1, img2)
            /\ pc' = "pyramid"
            /\ UNCHANGED result
       ELSE /\ pc' = "done"
            /\ result' = Raised("cat")
            /\ UNCHANGED im
    /\ UNCHANGED <<args, warnings, window, convs, stats, maps, y, st, pass, dist>>
    /\ grad' = IF result'.kind = "raise" THEN grad ELSE Track(grad, "im", {"img1", "img2"})
    /\ UNCHANGED seen
    /\ UNCHANGED synth

\* lines 316-332: the 6 normalized Laplacian scales; the pooling filter has
\* one channel, so the grouped convolution needs a single-channel image
NormalizedLaplacianPyramid ==
    /\ pc = "pyramid"
    /\ fn = "nlpd"
    /\ IF img1.c = 1
       THEN /\ y' = Decompose(im, N_scales)
            /\ pass' = 1
            /\ pc' = "dist"
            /\ UNCHANGED result
       ELSE /\ pc' = "done"
            /\ result' = Raised("conv2d")
            /\ UNCHANGED <<y, pass>>
    /\ UNCHANGED <<args, warnings, window, convs, stats, maps, im, st, dist>>
    /\ grad' = IF result'.kind = "raise" THEN grad ELSE Track(grad, "y", {"im"})
    /\ UNCHANGED seen
    /\ UNCHANGED synth

\* lines 391-401: the steerable pyramid and its nonlinearity: norm and state
SteerablePyramid ==
    /\ pc = "pyramid"
    /\ fn = "nspd"
    /\ y' = Decompose(im, Len(BandKeys(opts.O, opts.S)))
    /\ st' = Decompose(im, Len(BandKeys(opts.O, opts.S)))
    /\ pass' = 1
    /\ pc' = "dist"
    /\ UNCHANGED <<args, warnings, window, convs, stats, maps, im, dist, result>>
    /\ grad' = Track(Track(grad, "y", {"im"}), "st", {"im"})
    /\ UNCHANGED seen
    /\ UNCHANGED synth

\* lines 377-378: one pass of the loop of nlpd
NlpdTerm ==
    /\ pc = "dist"
    /\ fn = "nlpd"
    /\ pass <= N_scales
    /\ dist' = Append(dist, Term(First(y[pass]), Second(y[pass])))
    /\ pass' = pass + 1
    /\ UNCHANGED <<pc, args, warnings, window, convs, stats, maps, im, y, st, result>>
    /\ grad' = Track(grad, "dist", {"y"})
    /\ UNCHANGED seen
    /\ UNCHANGED synth

\* lines 406-409: one pass of the loop of nspd, two terms per band key
NspdTerm ==
    /\ pc = "dist"
    /\ fn = "nspd"
    /\ pass <= Len(st)
    /\ dist' = dist \o NspdTerms(y, st, pass)
    /\ pass' = pass + 1
    /\ UNCHANGED <<pc, args, warnings, window, convs, stats, maps, im, y, st, result>>
    /\ grad' = Track(grad, "dist", {"y", "st"})
    /\ UNCHANGED seen
    /\ UNCHANGED synth

\* lines 380 and 411: torch.stack(dist).mean(), a scalar
MeanDist ==
    /\ pc = "dist"
    /\ pass > Len(y)
    /\ result' = IF dist = <<>> THEN Raised("stack") ELSE Value(0, NoTensor)
    /\ pc' = "done"
    /\ UNCHANGED <<args, warnings, window, convs, stats, maps, pyr>>
    /\ grad' = IF result'.kind = "raise" THEN grad ELSE Track(grad, "result", {"dist"})
    /\ UNCHANGED seen
    /\ UNCHANGED synth

\* the call is over: nothing of it outlives the return
Return ==
    /\ pc = "done"
    /\ pc' = "idle"
    /\ fn' = "none"
    /\ img1' = NoImage
    /\ img2' = NoImage
    /\ weighted' = FALSE
    /\ dynamic_range' = 1
    /\ opts' = NoOpts
    /\ warnings' = {}
    /\ window' = NoWindow
    /\ convs' = 0
    /\ mu1' = NoTensor
    /\ mu2' = NoTensor
    /\ sigma1_sq' = NoTensor
    /\ sigma2_sq' = NoTensor
    /\ sigma12' = NoTensor
    /\ contrast_map' = NoTensor
    /\ weight' = NoTensor
    /\ map_ssim' = NoTensor
    /\ im' = <<>>
    /\ y' = <<>>
    /\ st' = <<>>
    /\ pass' = 0
    /\ dist' = <<>>
    /\ result' = NoResult
    /\ grad' = {}
    /\ seen' = IF seen = NoCall /\ IsReplayed
               THEN [call |-> args, result |-> result]
               ELSE seen
    /\ UNCHANGED synth

Next ==
    \/ CallSsim
    \/ RangeCheck
    \/ ChannelCheck
    \/ ShapeCheck
    \/ BatchCheck
    \/ CreateWindow
    \/ WindowSumCheck
    \/ WindowDimCheck
    \/ Means
    \/ Variances
    \/ Contrast
    \/ Weight
    \/ SsimMap
    \/ Reduce
    \/ CallDist
    \/ Concat
    \/ NormalizedLaplacianPyramid
    \/ SteerablePyramid
    \/ NlpdTerm
    \/ NspdTerm
    \/ MeanDist
    \/ Return

Spec == Init /\ [][Next]_vars

(* -------------------------- Synthesis methods ------------------------- *)
\* two Synthesis objects are initialized
Construct ==
    /\ at = "none"
    /\ \E o1 \in Savers, o2 \in Loaders : objs' = <<o1, o2>>
    /\ at' = "idle"
    /\ UNCHANGED <<metric, file, calls, op, tmp_dict, device, todo, before, outcome>>

\* lines 39-57: self.save(file_path, attrs) on the first object
Save ==
    /\ at = "idle"
    /\ calls < MaxCalls
    /\ \E attrs \in {[given |-> FALSE, names |-> <<>>]}
                    \cup {[given |-> TRUE, names |-> l] : l \in SaveLists} :
          LET names == IF attrs.given THEN attrs.names ELSE DefaultAttrs(objs[1])
          IN /\ op' = [method |-> "save", self |-> 1, attrs |-> attrs]
             /\ IF FirstMissing(objs[1], names) # 0
                THEN /\ outcome' = Failed("AttributeError", ModelWarning(objs[1], names))
                     /\ UNCHANGED file
                ELSE /\ outcome' = Returned(0, ModelWarning(objs[1], names))
                     /\ file' = [exists |-> TRUE, dict |-> save_dict(objs[1], names),
                               obj |-> objs[1]]
    /\ before' = objs
    /\ calls' = calls + 1
    /\ at' = "ended"
    /\ UNCHANGED <<metric, objs, tmp_dict, device, todo>>

\* lines 185-210: self.to(device, dtype, attrs=attrs) on either object
To ==
    /\ at = "idle"
    /\ calls < MaxCalls
    /\ \E self \in 1..2, target \in ToTargets, attrs \in ToLists :
          /\ op' = [method |-> "to", self |-> self, target |-> target, attrs |-> attrs]
          /\ objs' = WithObject(objs, self, object_to(objs[self], target, attrs))
          /\ outcome' = Returned(self, IF objs[self]["model"].type = "module"
                                       THEN {} ELSE {"model"})
    /\ before' = objs
    /\ calls' = calls + 1
    /\ at' = "ended"
    /\ UNCHANGED <<metric, file, tmp_dict, device, todo>>

\* lines 101-110: self.load(file_path, map_location, check_attributes,
\* check_loss_functions) on the second object reads the file
Load ==
    /\ at = "idle"
    /\ calls < MaxCalls
    /\ \E loc \in MapLocations, ca \in CheckLists, cl \in LossLists :
          /\ op' = [method |-> "load", self |-> 2, map_location |-> loc,
                    check_attributes |-> ca, check_loss_functions |-> cl]
          /\ IF file.exists
             THEN /\ tmp_dict' = torch_load(file.dict, loc)
                  /\ device' = probe_device(tmp_dict', loc)
                  /\ at' = "check_attributes"
                  /\ UNCHANGED outcome
             ELSE /\ outcome' = Failed("FileNotFoundError", {})
                  /\ at' = "ended"
                  /\ UNCHANGED <<tmp_dict, device>>
    /\ before' = objs
    /\ calls' = calls + 1
    /\ UNCHANGED <<metric, objs, file, todo>>

\* lines 111-136: the loop over check_attributes
CheckAttributes ==
    /\ at = "check_attributes"
    /\ IF check_attributes(objs[op.self], tmp_dict, op.check_attributes) # ""
       THEN /\ outcome' = Failed(check_attributes(objs[op.self], tmp_dict,
                                                  op.check_attributes), {})
            /\ at' = "ended"
       ELSE /\ at' = "check_loss_functions"
            /\ UNCHANGED outcome
    /\ UNCHANGED <<metric, objs, file, calls, op, tmp_dict, device, todo, before>>

\* lines 137-147: the loop over check_loss_functions: the two loss functions
\* are called on a pair of random tensors placed on device
CheckLossFunctions ==
    /\ at = "check_loss_functions"
    /\ IF op.check_loss_functions = <<>>
       THEN /\ at' = "setattr"
            /\ todo' = tmp_dict
            /\ UNCHANGED outcome
       ELSE LET k == Head(op.check_loss_functions)
                o == objs[op.self]
            IN IF ~hasattr(o, "_signal_shape")
               THEN outcome' = Failed("AttributeError", {}) /\ at' = "ended" /\ UNCHANGED todo
               ELSE IF device = "unbound"
               THEN outcome' = Failed("UnboundLocalError", {}) /\ at' = "ended" /\ UNCHANGED todo
               ELSE IF k \notin Keys(tmp_dict)
               THEN outcome' = Failed("KeyError", {}) /\ at' = "ended" /\ UNCHANGED todo
               ELSE IF Get(tmp_dict, k).type # "function" \/ o[k].type # "function"
               THEN outcome' = Failed("TypeError", {}) /\ at' = "ended" /\ UNCHANGED todo
               ELSE \E close \in (IF Get(tmp_dict, k) = o[k] THEN {TRUE} ELSE BOOLEAN) :
                       IF close
                       THEN at' = "setattr" /\ todo' = tmp_dict /\ UNCHANGED outcome
                       ELSE /\ outcome' = Failed("Exception", {})
                            /\ at' = "ended"
                            /\ UNCHANGED todo
    /\ UNCHANGED <<metric, objs, file, calls, op, tmp_dict, device, before>>

\* lines 148-149: one pass of the loop that sets the loaded attributes
SetAttr ==
    /\ at = "setattr"
    /\ todo # <<>>
    /\ objs' = WithObject(objs, op.self,
                          setattr(objs[op.self], Head(todo)[1], Head(todo)[2]))
    /\ todo' = Tail(todo)
    /\ UNCHANGED <<metric, file, calls, at, op, tmp_dict, device, before, outcome>>

\* load returns None
LoadReturn ==
    /\ at = "setattr"
    /\ todo = <<>>
    /\ outcome' = Returned(0, {})
    /\ at' = "ended"
    /\ UNCHANGED <<metric, objs, file, calls, op, tmp_dict, device, todo, before>>

\* the caller has the outcome: the locals of the method are gone
Finish ==
    /\ at = "ended"
    /\ at' = "idle"
    /\ op' = NoOp
    /\ tmp_dict' = <<>>
    /\ device' = "unbound"
    /\ todo' = <<>>
    /\ before' = <<>>
    /\ outcome' = NoOutcome
    /\ UNCHANGED <<metric, objs, file, calls>>

\* the objects and the file are discarded
Discard ==
    /\ at = "idle"
    /\ at' = "none"
    /\ objs' = <<>>
    /\ file' = NoFile
    /\ calls' = 0
    /\ UNCHANGED <<metric, op, tmp_dict, device, todo, before, outcome>>

SynthNext ==
    \/ Construct
    \/ Save
    \/ To
    \/ Load
    \/ CheckAttributes
    \/ CheckLossFunctions
    \/ SetAttr
    \/ LoadReturn
    \/ Finish
    \/ Discard

SynthSpec == Init /\ [][SynthNext]_vars

(* =============================== claims =============================== *)

\* C1: ssim of two batches with one height, width and channel count: when
\* the batch sizes are equal or one of them is 1 the call returns a value
\* whose leading dimension is the larger batch size; otherwise it raises
C1_BroadcastLaw ==
    (pc = "done" /\ fn = "ssim"
        /\ img1.h = img2.h /\ img1.w = img2.w /\ img1.c = img2.c) =>
       IF Len(img1.batch) = Len(img2.batch)
             \/ Len(img1.batch) = 1 \/ Len(img2.batch) = 1
       THEN /\ result.kind = "value"
            /\ result.t.n = Max(Len(img1.batch), Len(img2.batch))
       ELSE result.kind = "raise"

\* C2: whichever of ssim, ssim_map, nlpd and nspd is called, batch sizes
\* that differ with neither equal to 1 end the call in a failure, never in
\* a returned value
C2_BatchRuleEverywhere ==
    (pc = "done"
        /\ Len(img1.batch) # Len(img2.batch)
        /\ Len(img1.batch) # 1 /\ Len(img2.batch) # 1) =>
       result.kind = "raise"

\* C3: in ssim and ssim_map, inputs whose heights or widths differ, or whose
\* batch sizes are incompatible, never reach a windowed convolution; the call
\* ends in the shape or batch failure, and a call that ends in a shape, batch
\* or window failure has run no convolution, holds no local statistic or map
\* and hands no tensor to the caller
C3_ValidateThenCompute ==
    /\ (IsSsim /\ (img1.h # img2.h \/ img1.w # img2.w
                   \/ (Len(img1.batch) # Len(img2.batch)
                       /\ Len(img1.batch) # 1 /\ Len(img2.batch) # 1))) =>
          /\ convs = 0
          /\ pc = "done" => (result.kind = "raise" /\ result.why \in {"shape", "batch"})
    /\ (IsSsim /\ pc = "done" /\ result.kind = "raise"
           /\ result.why \in {"shape", "batch", "window"}) =>
          /\ convs = 0
          /\ stats = <<NoTensor, NoTensor, NoTensor, NoTensor, NoTensor>>
          /\ maps = <<NoTensor, NoTensor, NoTensor>>
          /\ result.t = NoTensor

\* C3 happens: ssim_map has ended in the batch failure, the widths and
\* heights being equal
C3_Witness ==
    /\ pc = "done"
    /\ fn = "ssim_map"
    /\ img1.h = img2.h /\ img1.w = img2.w
    /\ result = Raised("batch")

\* C4: ssim of an image with itself is 1, weighted or not, for every dynamic
\* range, constant images included (stated here for square images with
\* values inside the declared range)
C4_IdenticalIsOne ==
    (pc = "done" /\ fn = "ssim" /\ img2 = img1 /\ img1.h = img1.w
        /\ "range" \notin warnings) =>
       /\ result.kind = "value"
       /\ \A b \in 1..result.t.n : \A p \in Grid(result.t.h, result.t.w) :
             result.t.v[b][p] = FixOne

\* C5: for inputs inside the declared range, every number ssim returns,
\* weighted or not, lies between 0 and 1
C5_SsimInUnitInterval ==
    (pc = "done" /\ fn = "ssim" /\ result.kind = "value"
        /\ "range" \notin warnings) =>
       \A b \in 1..result.t.n : \A p \in Grid(result.t.h, result.t.w) :
          result.t.v[b][p] # NaN =>
             (0 <= result.t.v[b][p] /\ result.t.v[b][p] <= FixOne)

\* C6: once the contrast map exists, the weight map has its shape, and each
\* of its entries is the logarithm of (1 + var1/C2) * (1 + var2/C2) at the
\* same pixel, which is not negative
C6_WeightElementwise ==
    (IsSsim /\ pc = "done" /\ contrast_map # NoTensor) =>
       /\ <<weight.n, weight.c, weight.h, weight.w>>
             = <<contrast_map.n, contrast_map.c, contrast_map.h, contrast_map.w>>
       /\ \A b \in 1..weight.n : \A p \in Grid(weight.h, weight.w) :
             /\ weight.v[b][p] >= 0
             /\ weight.v[b][p] =
                   Lg2(At(OnePlusOverC2(sigma1_sq, dynamic_range), b, p),
                       OnePlusOverC2(sigma1_sq, dynamic_range).den)
                   + Lg2(At(OnePlusOverC2(sigma2_sq, dynamic_range), b, p),
                         OnePlusOverC2(sigma2_sq, dynamic_range).den)

\* C7: ssim_map of two images of height H, width W and one channel count,
\* with compatible batch sizes, returns a map of height H - w + 1 and width
\* W - w + 1 for w = min(11, H, W), with the channels of the input
C7_MapSize ==
    (pc = "done" /\ fn = "ssim_map"
        /\ img1.h = img2.h /\ img1.w = img2.w /\ img1.c = img2.c
        /\ (Len(img1.batch) = Len(img2.batch)
            \/ Len(img1.batch) = 1 \/ Len(img2.batch) = 1)) =>
       LET w == Min(WindowCap, Min(img1.h, img1.w))
       IN /\ result.kind = "value"
          /\ result.t.h = img1.h - w + 1
          /\ result.t.w = img1.w - w + 1
          /\ result.t.h >= 1 /\ result.t.w >= 1
          /\ result.t.c = img1.c

\* C8: in ssim with dynamic_range 1, 2 or 255, a pixel of either input
\* outside [0, 1], [-1, 1] or [0, 255] leaves the range warning behind, and
\* the call goes on as it would without it: the maps are the ones of the
\* constants C1 = (0.01 * dynamic_range)^2 and C2 = (0.03 * dynamic_range)^2,
\* the number returned is their mean, and the only failure left is the one
\* of the weight map
C8_RangeAdvisory ==
    LET lower == IF dynamic_range = 2 THEN 0 - 1 ELSE 0
        upper == IF dynamic_range = 255 THEN 255 ELSE 1
        outside == \E x \in PixelSet(img1) \cup PixelSet(img2) : x < lower \/ x > upper
    IN (fn = "ssim" /\ pc \notin {"idle", "range"} /\ outside) =>
          /\ "range" \in warnings
          /\ (pc = "done" /\ img1.h = img2.h /\ img1.w = img2.w
                 /\ Len(img1.batch) = Len(img2.batch) /\ img1.c = img2.c) =>
                IF result.kind = "raise"
                THEN result.why = "matmul" /\ contrast_map.h # contrast_map.w
                ELSE /\ contrast_map =
                           TDiv(TAddScalar(TScale(2, sigma12),
                                           C2num(dynamic_range), C2den(dynamic_range)),
                                TAddScalar(TAdd(sigma1_sq, sigma2_sq),
                                           C2num(dynamic_range), C2den(dynamic_range)))
                     /\ map_ssim =
                           TFixMul(TDiv(TAddScalar(TScale(2, mu1_mu2),
                                                   C1num(dynamic_range), C1den(dynamic_range)),
                                        TAddScalar(TAdd(mu1_sq, mu2_sq),
                                                   C1num(dynamic_range), C1den(dynamic_range))),
                                   contrast_map)
                     /\ result = Value(2, IF weighted THEN WeightedMean(map_ssim, weight)
                                          ELSE TMean(map_ssim))

\* C8 happens: ssim has returned a number for an image with a pixel below 0
\* under dynamic_range 1, with the warning emitted
C8_Witness ==
    /\ pc = "done"
    /\ fn = "ssim"
    /\ dynamic_range = 1
    /\ \E x \in PixelSet(img1) : x < 0
    /\ "range" \in warnings
    /\ result.kind = "value"

\* C9: a window whose sum is not 1, above or below, is reported and
\* renormalized before a convolution uses it: from the first convolution on
\* the window sums to 1
C9_WindowNormalized ==
    (IsSsim /\ convs > 0) => WindowSum(window) = 0

\* C10: in nlpd and nspd called with two batches of one size, every term of
\* the distance compares an entry of the first input with the same entry of
\* the second, and every entry is compared in every scale or band
C10_HalvesCompared ==
    (IsDist /\ pc = "done" /\ result.kind = "value"
        /\ Len(img1.batch) = Len(img2.batch)) =>
       /\ \A t \in 1..Len(dist) :
             /\ dist[t].left[1] = 1
             /\ dist[t].right[1] = 2
             /\ dist[t].left[2] = dist[t].right[2]
       /\ \A b \in 1..Len(img1.batch) : \E t \in 1..Len(dist) :
             dist[t].left = <<1, b>>

\* C11: nlpd of a single-channel batch with itself: each of the 6 per-scale
\* mean squared differences is exactly 0, so that the distance is the floor
\* sqrt(epsilon), whatever the batch size
C11_IdenticalAtFloor ==
    (pc = "done" /\ fn = "nlpd" /\ img2 = img1 /\ img1.c = 1) =>
       /\ result.kind = "value"
       /\ Len(dist) = N_scales
       /\ \A t \in 1..Len(dist) : dist[t].zero

\* C12: the distance nspd returns is the mean of two terms per band key, one
\* from norm and one from state, every key once in each
C12_TwoTermsPerBand ==
    (pc = "done" /\ fn = "nspd" /\ result.kind = "value") =>
       /\ Len(dist) = 2 * Len(BandKeys(opts.O, opts.S))
       /\ \A j \in 1..Len(BandKeys(opts.O, opts.S)) : \A m \in {"norm", "state"} :
             Cardinality({t \in 1..Len(dist) : dist[t].key = j /\ dist[t].map = m}) = 1

\* C12 happens: nspd with the local gain control has returned the mean of
\* its terms, 2 for each of the S * (O + 1) bands
C12_Witness ==
    /\ pc = "done"
    /\ fn = "nspd"
    /\ ~opts.complex
    /\ result.kind = "value"
    /\ Len(dist) = 2 * opts.S * (opts.O + 1)
    /\ Len(dist) > 0

C17_GradientFlows ==
    (pc = "done" /\ fn \in {"ssim", "nlpd", "nspd"} /\ result.kind = "value"
        /\ grad \cap {"img1", "img2"} # {}) =>
       "result" \in grad

\* C17 happens: nspd with the local gain control has returned a value for a
\* second image that requires gradient and a first one that does not
C17_Witness ==
    /\ pc = "done"
    /\ fn = "nspd"
    /\ ~opts.complex
    /\ "img2" \in grad
    /\ "img1" \notin grad
    /\ result.kind = "value"
    /\ "result" \in grad

(* C14: when save returns, the keys of the written dictionary are the
   object's attribute names without 'model' if attrs was None, and exactly
   the listed names if a list was given, 'model' among them and warned about
   if it was listed; and whether save returns or raises, the object has the
   attributes and the values it had before the call. *)
SeqRange(s) == {s[n] : n \in 1..Len(s)}

C14_SaveWritesNamed ==
    (at = "ended" /\ op.method = "save") =>
       /\ objs = before
       /\ outcome.kind = "return" =>
             /\ file.exists
             /\ ~op.attrs.given =>
                   Keys(file.dict) = {k \in AttrNames : hasattr(objs[1], k)} \ {"model"}
             /\ op.attrs.given =>
                   /\ Keys(file.dict) = SeqRange(op.attrs.names)
                   /\ "model" \in SeqRange(op.attrs.names) => "model" \in outcome.warned
             /\ \A k \in Keys(file.dict) : Get(file.dict, k) = detach(objs[1][k])

C14_Witness ==
    /\ at = "ended"
    /\ op.method = "save"
    /\ op.attrs.given
    /\ outcome.kind = "return"
    /\ "model" \in Keys(file.dict)
    /\ "model" \in outcome.warned
    /\ objs = before

(* C15: when load returns, every attribute named in check_attributes was an
   attribute of the object before the call and had the saved value: for a
   tensor the same shape and the same entries, for any other value an equal
   one. *)
identical(a, b) ==
    IF a.type = "tensor" /\ b.type = "tensor" THEN a.vals = b.vals /\ a.dtype = b.dtype
    ELSE a = b

C15_CheckedIdentical ==
    (at = "ended" /\ op.method = "load" /\ outcome.kind = "return") =>
       \A n \in 1..Len(op.check_attributes) :
          LET k == op.check_attributes[n]
          IN /\ hasattr(before[op.self], k)
             /\ k \in Keys(tmp_dict)
             /\ identical(before[op.self][k], Get(tmp_dict, k))

(* C16: when to returns, a listed attribute whose name starts with "saved_"
   has kept its device if the target device is CUDA and is on the target
   device otherwise; every other listed tensor, and every tensor of a listed
   list, is on the target device; a Parameter is still a Parameter with the
   same entries; a name that is not listed, is absent or holds neither a
   tensor nor a list has the value it had; and the object itself is
   returned. *)
Listed(k) == \E n \in 1..Len(op.attrs) : op.attrs[n] = k

Relocated(was, now, k) ==
    /\ now.type = "tensor"
    /\ now.vals = was.vals
    /\ now.param = was.param
    /\ now.device = IF startswith_saved(k) /\ op.target.device = "cuda"
                    THEN was.device ELSE op.target.device

C16_ToRelocates ==
    (at = "ended" /\ op.method = "to") =>
       /\ outcome.kind = "return"
       /\ outcome.value = op.self
       /\ \A k \in AttrNames \ {"model"} :
             LET was == before[op.self][k]
                 now == objs[op.self][k]
             IN IF Listed(k) /\ was.type = "tensor" THEN Relocated(was, now, k)
                ELSE IF Listed(k) /\ was.type = "list"
                THEN /\ now.type = "list"
                     /\ Len(now.items) = Len(was.items)
                     /\ \A n \in 1..Len(was.items) : Relocated(was.items[n], now.items[n], k)
                ELSE now = was

(* C18: load assigns nothing while its checks run, so when it raises the
   object has every attribute and value it had before the call; and when it
   returns, every key of the loaded dictionary is an attribute of the object
   with the loaded value. *)
C18_AllOrNothing ==
    op.method = "load" =>
       /\ at \in {"check_attributes", "check_loss_functions"} => objs = before
       /\ (at = "ended" /\ outcome.kind = "raise") => objs = before
       /\ (at = "ended" /\ outcome.kind = "return") =>
             /\ \A k \in Keys(tmp_dict) : objs[op.self][k] = Get(tmp_dict, k)
             /\ \A k \in AttrNames \ Keys(tmp_dict) : objs[op.self][k] = before[op.self][k]
             /\ \A n \in 1..2 : n # op.self => objs[n] = before[n]

C18_Witness ==
    /\ op.method = "load"
    /\ at = "ended"
    /\ outcome.kind = "raise"
    /\ outcome.why = "Exception"
    /\ op.check_loss_functions # <<>>
    /\ \E k \in Keys(tmp_dict) : objs[op.self][k] # Get(tmp_dict, k)
    /\ objs = before

(* C19: a load with empty check lists of a file that save wrote returns, and
   then every name save wrote is an attribute of the loading object with the
   value the saving object had when it was saved (detached, and stored on
   map_location if one was given), every attribute that is not in the file
   has the value it had before the load, and 'model' is as before unless it
   was saved. *)
C19_RoundTrip ==
    (/\ at = "ended"
     /\ op.method = "load"
     /\ op.check_attributes = <<>>
     /\ op.check_loss_functions = <<>>
     /\ file.exists) =>
       /\ outcome.kind = "return"
       /\ \A k \in Keys(file.dict) :
             /\ hasattr(objs[op.self], k)
             /\ objs[op.self][k] = map_value(detach(file.obj[k]), op.map_location)
       /\ \A k \in AttrNames \ Keys(file.dict) : objs[op.self][k] = before[op.self][k]
       /\ "model" \notin Keys(file.dict) => objs[op.self]["model"] = before[op.self]["model"]

C19_Witness ==
    /\ at = "ended"
    /\ op.method = "load"
    /\ op.check_attributes = <<>>
    /\ op.check_loss_functions = <<>>
    /\ file.exists
    /\ outcome.kind = "return"
    /\ "model" \notin Keys(file.dict)
    /\ \E k \in Keys(file.dict) : objs[op.self][k] # before[op.self][k]
    /\ \E k \in AttrNames \ (Keys(file.dict) \cup {"model"}) : hasattr(objs[op.self], k)

(* C20: whenever load comes to its loop over a non-empty check_loss_functions,
   the device for the two probe tensors is defined: it is map_location if
   that was given and the device of the first tensor value of the loaded
   dictionary otherwise, and load never fails for want of it. *)
C20_ProbeDeviceDefined ==
    (op.method = "load" /\ op.check_loss_functions # <<>>) =>
       /\ at = "check_loss_functions" =>
             /\ device \in Devices
             /\ op.map_location # NoTarget => device = op.map_location
       /\ at = "ended" => outcome.why # "UnboundLocalError"

====
